---- MODULE Spec2Model ----
(***************************************************************************)
(* A model of the Result Synthesis & Protocol Layer of the OCR service:    *)
(*   - the Error Classifier          (src/src/error/handle_errors.py)      *)
(*   - the Protocol Server           (src/websocket_server.py)             *)
(*   - the Batch Orchestrator        (src/main.py)                         *)
(* The engine (PaddleOCR), image decoding and drawing are external: each   *)
(* call into them is an input, drawn from the outcomes it can have.        *)
(***************************************************************************)
EXTENDS Integers, Sequences, FiniteSets, TLC

(***************************************************************************)
(* Bounds of the model.                                                    *)
(***************************************************************************)
\* connections the server accepts in one run
MaxConns == 2
\* messages one client sends on its connection
MaxMsgs == 2
\* length of the batch driver's input list
MaxBatch == 3
\* raw recognitions the engine returns for one image
MaxRegions == 3

(***************************************************************************)
(* Values.                                                                 *)
(***************************************************************************)
\* Python's None, where a field holds a string or None
None == "None"

\* Source paths and contexts given to the classifier and the batch driver.
\* "websocket_image" is the context string of the server.
SourcePaths == {"input/1.png", "input/1.jpg", "scans/2.png", "input/gone.png",
                "websocket_image"}

(***************************************************************************)
(* Faults: Python exceptions, by class and by what str(error) gives.       *)
(* str(error) is a sequence of parts, so that "the message includes the    *)
(* path" is something a check can see.                                     *)
(***************************************************************************)
FaultClasses == {"FileNotFoundError", "PermissionError", "IsADirectoryError",
                 "OSError", "ValueError", "UnicodeDecodeError", "TypeError",
                 "KeyError", "AttributeError", "RuntimeError", "Exception"}

\* The classes a fault of class cls is an instance of (its method resolution
\* order in Python's built-in hierarchy, without BaseException and object).
Mro(cls) ==
    CASE cls = "FileNotFoundError"  -> {"FileNotFoundError", "OSError", "Exception"}
      [] cls = "PermissionError"    -> {"PermissionError", "OSError", "Exception"}
      [] cls = "IsADirectoryError"  -> {"IsADirectoryError", "OSError", "Exception"}
      [] cls = "OSError"            -> {"OSError", "Exception"}
      [] cls = "ValueError"         -> {"ValueError", "Exception"}
      [] cls = "UnicodeDecodeError" -> {"UnicodeDecodeError", "ValueError", "Exception"}
      [] cls = "TypeError"          -> {"TypeError", "Exception"}
      [] cls = "KeyError"           -> {"KeyError", "LookupError", "Exception"}
      [] cls = "AttributeError"     -> {"AttributeError", "Exception"}
      [] cls = "RuntimeError"       -> {"RuntimeError", "Exception"}
      [] OTHER                      -> {"Exception"}

isinstance(error, cls) == cls \in Mro(error.cls)

Fault(cls, msg) == [cls |-> cls, msg |-> msg]

\* what str(error) can be: a text that names a path, or one that does not
FaultMsgs == {<<"unexpected">>} \cup {<<"cannot read: ", p>> : p \in SourcePaths}

Faults == {Fault(c, m) : c \in FaultClasses, m \in FaultMsgs}

(***************************************************************************)
(* The Error Classifier: handle_ocr_error.                                 *)
(***************************************************************************)
\* traceback.format_exc(): the text of the exception being handled
format_exc(error) == "Traceback (most recent call last)"

\* the branch the isinstance chain takes, as a variant of the first test that
\* tests the common base class of the file faults
error_type_oserror_first(error) ==
    IF isinstance(error, "OSError") THEN "FILE_NOT_FOUND"
    ELSE IF isinstance(error, "ValueError") THEN "INVALID_IMAGE"
    ELSE IF isinstance(error, "PermissionError") THEN "PERMISSION_DENIED"
    ELSE "PROCESSING_ERROR"

error_type(error) ==
    IF isinstance(error, "FileNotFoundError") THEN "FILE_NOT_FOUND"
    ELSE IF isinstance(error, "ValueError") THEN "INVALID_IMAGE"
    ELSE IF isinstance(error, "PermissionError") THEN "PERMISSION_DENIED"
    ELSE "PROCESSING_ERROR"

\* the message, as a variant that reports the fault's own text for every kind
error_message_fault_text(error, image_path) ==
    IF isinstance(error, "FileNotFoundError")
        THEN <<"Image file not found: ">> \o error.msg
    ELSE IF isinstance(error, "ValueError")
        THEN <<"Invalid image file: ">> \o error.msg
    ELSE IF isinstance(error, "PermissionError")
        THEN <<"Permission denied accessing file: ">> \o error.msg
    ELSE <<"OCR processing failed: ">> \o error.msg

error_message(error, image_path) ==
    IF isinstance(error, "FileNotFoundError")
        THEN <<"Image file not found: ", image_path>>
    ELSE IF isinstance(error, "ValueError")
        THEN <<"Invalid image file: ">> \o error.msg
    ELSE IF isinstance(error, "PermissionError")
        THEN <<"Permission denied accessing file: ", image_path>>
    ELSE <<"OCR processing failed: ">> \o error.msg

\* the traceback field, as a variant that attaches the trace to every kind
error_traceback_always(error) == format_exc(error)

error_traceback(error) ==
    IF error_type(error) = "PROCESSING_ERROR" THEN format_exc(error) ELSE None

\* metadata.error of a success envelope (JSON null)
NoError == [type |-> None, message |-> <<>>, image_path |-> None, traceback |-> None]

\* Confidences are counted in hundredths (0.95 is 95); an average is the
\* exact quotient sum / n, held in lowest terms.
RECURSIVE GCD(_, _)
GCD(a, b) == IF b = 0 THEN a ELSE GCD(b, a % b)

Quotient(sum, n) ==
    LET g == GCD(sum, n) IN [num |-> sum \div g, den |-> n \div g]

\* Texts are sequences of characters; "" is <<>>.
ZeroStats == [average |-> Quotient(0, 1), minimum |-> 0, maximum |-> 0,
              total_characters |-> 0, total_words |-> 0, longest_text |-> <<>>]

handle_ocr_error(error, image_path) ==
    [form               |-> "envelope",
     findings           |-> <<>>,
     total_text_regions |-> 0,
     success            |-> FALSE,
     error              |-> [type       |-> error_type(error),
                             message    |-> error_message(error, image_path),
                             image_path |-> image_path,
                             traceback  |-> error_traceback(error)],
     stats              |-> ZeroStats]

\* no response yet
NoResponse == [form |-> "none"]

(***************************************************************************)
(* The Result Assembler and the Geometry Reconstructor: parse_results,     *)
(* extract_individual_words, the types of ocr_types and format_json.       *)
(***************************************************************************)
MinOf(S) == CHOOSE x \in S : \A y \in S : x <= y
MaxOf(S) == CHOOSE x \in S : \A y \in S : x >= y

RECURSIVE SumSeq(_)
SumSeq(q) == IF q = <<>> THEN 0 ELSE Head(q) + SumSeq(Tail(q))

\* int(float(num / den)): truncation toward zero (den > 0)
int(num, den) == IF num >= 0 THEN num \div den ELSE -((-num) \div den)

\* str.strip() and str.split() on a text
RECURSIVE lstrip(_)
lstrip(t) == IF t # <<>> /\ Head(t) = " " THEN lstrip(Tail(t)) ELSE t
RECURSIVE rstrip(_)
rstrip(t) == IF t # <<>> /\ t[Len(t)] = " " THEN rstrip(SubSeq(t, 1, Len(t) - 1)) ELSE t
strip(t) == rstrip(lstrip(t))

RECURSIVE split(_)
split(t) ==
    LET s == lstrip(t) IN
    IF s = <<>> THEN <<>>
    ELSE LET ends == {k \in 1..Len(s) : s[k] = " "}
             n    == IF ends = {} THEN Len(s) + 1 ELSE MinOf(ends)
         IN <<SubSeq(s, 1, n - 1)>> \o split(SubSeq(s, n, Len(s)))

\* the 4 corner points of an axis-aligned region, clockwise from top-left
Box(x1, y1, x2, y2) == <<<<x1, y1>>, <<x2, y1>>, <<x2, y2>>, <<x1, y2>>>>

BoundingBox(top_left, top_right, bottom_right, bottom_left) ==
    [top_left |-> top_left, top_right |-> top_right,
     bottom_right |-> bottom_right, bottom_left |-> bottom_left]

\* word_box_data [total_width, word_list, position_list, lang_list]: len is
\* the number of elements the engine gave; present FALSE is None
WordBoxData(len, total_width, word_list, position_list) ==
    [present |-> TRUE, len |-> len, total_width |-> total_width,
     word_list |-> word_list, position_list |-> position_list]
NoWordBoxData ==
    [present |-> FALSE, len |-> 0, total_width |-> 0,
     word_list |-> <<>>, position_list |-> <<>>]

\* one raw recognition [bbox_points, (text, confidence, word_box_data)], by
\* what parse_results tells apart: arity is len(result[1]); text_is_str and
\* confidence_is_num are FALSE for a None in that place
Recognition(bbox_points, arity, text, text_is_str, confidence, confidence_is_num, word_box_data) ==
    [bbox_points |-> bbox_points, arity |-> arity,
     text |-> text, text_is_str |-> text_is_str,
     confidence |-> confidence, confidence_is_num |-> confidence_is_num,
     word_box_data |-> word_box_data]

\* individual_words: None, or the list of WordFinding
Unavailable == [available |-> FALSE, words |-> <<>>]
Available(words) == [available |-> TRUE, words |-> words]

\* confidence=1.0 of every WordFinding, in hundredths
WordConfidence == 100

WordFinding(word, confidence, coordinates, character_positions) ==
    [word |-> word, confidence |-> confidence, coordinates |-> coordinates,
     character_positions |-> character_positions]

\* the mapping of a relative position, as a variant that leaves out the
\* scaling by overall_width / total_width
MapX_unscaled(pos, total_width, overall_x1, overall_width) == overall_x1 + pos

\* overall_x1 + (pos / total_width) * overall_width, then int(float(...))
MapX(pos, total_width, overall_x1, overall_width) ==
    int(overall_x1 * total_width + pos * overall_width, total_width)

\* overall_width = overall_x2 - overall_x1, as a variant that takes the right
\* edge for the width
OverallWidth_right_edge(overall_x1, overall_x2) == overall_x2

OverallWidth(overall_x1, overall_x2) == overall_x2 - overall_x1

\* one pass of the loop of lines 43-83, for the word k of the zipped lists
WordOf(k, word_box_data, overall_bbox_points) ==
    LET chars      == word_box_data.word_list[k]
        positions  == word_box_data.position_list[k]
        total_width == word_box_data.total_width
        points     == {overall_bbox_points[i] : i \in 1..Len(overall_bbox_points)}
        overall_x1 == MinOf({pt[1] : pt \in points})
        overall_y1 == MinOf({pt[2] : pt \in points})
        overall_x2 == MaxOf({pt[1] : pt \in points})
        overall_y2 == MaxOf({pt[2] : pt \in points})
        overall_width == OverallWidth(overall_x1, overall_x2)
        word_start_pos == MinOf({positions[j] : j \in 1..Len(positions)})
        word_end_pos   == MaxOf({positions[j] : j \in 1..Len(positions)})
        word_start_x == MapX(word_start_pos, total_width, overall_x1, overall_width)
        word_end_x   == MapX(word_end_pos, total_width, overall_x1, overall_width)
        zipped == IF Len(chars) <= Len(positions) THEN Len(chars) ELSE Len(positions)
    IN WordFinding(
        chars,
        WordConfidence,
        BoundingBox(<<word_start_x, overall_y1>>, <<word_end_x, overall_y1>>,
                    <<word_end_x, overall_y2>>, <<word_start_x, overall_y2>>),
        [j \in 1..zipped |->
            <<chars[j], <<MapX(positions[j], total_width, overall_x1, overall_width),
                          int(overall_y1 + overall_y2, 2)>>>>])

\* the words the loop of line 43 does not skip: the places k of the zipped
\* lists whose characters and positions are both not empty
UsedWords(word_box_data) ==
    LET n == IF Len(word_box_data.word_list) <= Len(word_box_data.position_list)
                THEN Len(word_box_data.word_list)
                ELSE Len(word_box_data.position_list)
    IN SelectSeq([k \in 1..n |-> k],
                 LAMBDA k : /\ word_box_data.word_list[k] # <<>>
                            /\ word_box_data.position_list[k] # <<>>)

\* whether the body of the try of lines 24-86 raises: the unpacking of line
\* 28 for any length but 4, the division of line 56 for total_width 0
ExtractRaises(word_box_data) ==
    /\ word_box_data.present
    /\ word_box_data.len >= 3
    /\ \/ word_box_data.len # 4
       \/ /\ word_box_data.word_list # <<>>
          /\ word_box_data.position_list # <<>>
          /\ UsedWords(word_box_data) # <<>>
          /\ word_box_data.total_width = 0

\* what the except of line 88 does with it, as a variant without the try
\* (the fault reaches the per-entry try of parse_results)
OnExtractException_propagates == "raise"

OnExtractException == "return None"

extract_individual_words(word_box_data, overall_bbox_points) ==
    IF ~word_box_data.present \/ word_box_data.len < 3 THEN Unavailable
    ELSE IF ExtractRaises(word_box_data) THEN Unavailable
    ELSE IF word_box_data.word_list = <<>> \/ word_box_data.position_list = <<>>
        THEN Unavailable
    ELSE Available([j \in 1..Len(UsedWords(word_box_data)) |->
                        WordOf(UsedWords(word_box_data)[j], word_box_data, overall_bbox_points)])

\* whether the body of the per-entry try (lines 124-156) raises for an entry
EntryRaises(result) ==
    \/ result.arity \notin {2, 3}
    \/ Len(result.bbox_points) < 4
    \/ ~result.text_is_str
    \/ ~result.confidence_is_num
    \/ /\ OnExtractException = "raise"
       /\ result.arity = 3
       /\ ExtractRaises(result.word_box_data)

TextFinding(result) ==
    LET word_box_data == IF result.arity = 3 THEN result.word_box_data ELSE NoWordBoxData
    IN
    [text       |-> strip(result.text),
     confidence |-> result.confidence,
     coordinates |-> BoundingBox(result.bbox_points[1], result.bbox_points[2],
                                 result.bbox_points[3], result.bbox_points[4]),
     individual_words |-> IF word_box_data.present
                            THEN extract_individual_words(word_box_data, result.bbox_points)
                            ELSE Unavailable,
     raw_word_box_data |-> word_box_data]

\* what the except of line 159 does with an entry that raised, as a variant
\* without the per-entry try (the fault reaches line 167)
OnEntryException_propagates == "raise"

OnEntryException == "continue"

\* the findings, in the order of the entries; raised: parse_results raised
parse_results(recognition_results) ==
    IF /\ OnEntryException = "raise"
       /\ \E k \in 1..Len(recognition_results) : EntryRaises(recognition_results[k])
    THEN [raised |-> TRUE, findings |-> <<>>]
    ELSE
        LET kept == SelectSeq(recognition_results, LAMBDA r : ~EntryRaises(r))
        IN [raised |-> FALSE, findings |-> [k \in 1..Len(kept) |-> TextFinding(kept[k])]]

parse_results_fault == Fault("Exception", <<"Results parsing failed: ", "detail">>)

\* BoundingBox.to_dict: a dict of the four corners. The dict is held as the
\* sequence of its items (key, value), in the order they were inserted. As a
\* variant that gives the two bottom corners each other's key.
BoundingBox_to_dict_bottom_swapped(box) ==
    << <<"top_left", box.top_left>>, <<"top_right", box.top_right>>,
       <<"bottom_right", box.bottom_left>>, <<"bottom_left", box.bottom_right>> >>

BoundingBox_to_dict(box) ==
    << <<"top_left", box.top_left>>, <<"top_right", box.top_right>>,
       <<"bottom_right", box.bottom_right>>, <<"bottom_left", box.bottom_left>> >>

\* d[key] on such a dict
dict_get(d, key) == d[CHOOSE i \in 1..Len(d) : d[i][1] = key][2]

\* WordFinding.to_dict
WordFinding_to_dict(word) ==
    [word EXCEPT !.coordinates = BoundingBox_to_dict(@)]

\* TextFinding.to_dict: the optional keys are left out when they are falsy
to_dict(finding) ==
    [finding EXCEPT
        !.coordinates = BoundingBox_to_dict(@),
        !.individual_words =
            IF @.words = <<>> THEN Unavailable
            ELSE Available([j \in 1..Len(@.words) |-> WordFinding_to_dict(@.words[j])]),
        !.raw_word_box_data = IF @.present /\ @.len > 0 THEN @ ELSE NoWordBoxData]

\* max(findings, key=lambda f: len(f.text)), as a variant in which the last
\* of the longest wins
Longest_last_wins(findings) ==
    LET longest == MaxOf({Len(findings[k].text) : k \in 1..Len(findings)})
    IN findings[MaxOf({k \in 1..Len(findings) : Len(findings[k].text) = longest})]

\* max(findings, key=lambda f: len(f.text)): the first of the longest
Longest(findings) ==
    LET longest == MaxOf({Len(findings[k].text) : k \in 1..Len(findings)})
    IN findings[MinOf({k \in 1..Len(findings) : Len(findings[k].text) = longest})]

\* the statistics of lines 61-74, for findings that are not empty
FindingsStats(findings) ==
    LET confidences == [k \in 1..Len(findings) |-> findings[k].confidence] IN
    [average |-> Quotient(SumSeq(confidences), Len(confidences)),
     minimum |-> MinOf({confidences[k] : k \in 1..Len(confidences)}),
     maximum |-> MaxOf({confidences[k] : k \in 1..Len(confidences)}),
     total_characters |-> SumSeq([k \in 1..Len(findings) |-> Len(findings[k].text)]),
     total_words |-> SumSeq([k \in 1..Len(findings) |-> Len(split(findings[k].text))]),
     longest_text |-> Longest(findings).text]

\* the branch on "if findings" of lines 60-85, as a variant whose else
\* branch leaves the minimum at the start value of a running minimum
SummaryStats_minimum_unset(findings) ==
    IF findings # <<>> THEN FindingsStats(findings)
    ELSE [ZeroStats EXCEPT !.minimum = 100]

SummaryStats(findings) ==
    IF findings # <<>> THEN FindingsStats(findings) ELSE ZeroStats

format_json(findings) ==
    [form               |-> "envelope",
     findings           |-> [k \in 1..Len(findings) |-> to_dict(findings[k])],
     total_text_regions |-> Len(findings),
     success            |-> TRUE,
     error              |-> NoError,
     stats              |-> SummaryStats(findings)]

\* the recognitions of an image the engine reads one region from
EngineRecognitions ==
    << Recognition(Box(0, 0, 30, 10), 3, <<"H", "I">>, TRUE, 95, TRUE,
                   WordBoxData(4, 30, << <<"H", "I">> >>, << <<0, 5>> >>)) >>

\* the findings parse_results gives for the recognitions of an "ok" call
EngineFindings == parse_results(EngineRecognitions).findings

(***************************************************************************)
(* Protocol Server: messages and replies.                                  *)
(***************************************************************************)
Conns == 1..MaxConns

\* What a client can send in one message, by what the handler's code tells
\* apart. json is the shape json.loads gives ("invalid": it raises; "number"
\* stands for every value that is no container: number, true, false, null).
\* image is what the value holds for 'image':
\*   object: "absent", or the class of the value under the key "image";
\*   array:  "absent", or "element" (one element is the string "image").
MsgBody(json, image) == [json |-> json, image |-> image]

Messages ==
    { MsgBody("invalid", "absent"),
      MsgBody("number",  "absent"),
      MsgBody("array",   "absent"),
      MsgBody("array",   "element"),
      MsgBody("object",  "absent"),
      MsgBody("object",  "b64_image"),     \* base64 of an image file
      MsgBody("object",  "b64_garbage"),   \* base64 of bytes that are no image
      MsgBody("object",  "not_b64") }      \* a string base64.b64decode rejects

NoMsg == [id |-> 0, body |-> MsgBody("invalid", "absent")]

\* the minimal protocol-error object {"success": False, "error": text}
Minimal(text) == [form |-> "minimal", success |-> FALSE, error |-> text]

MissingImageReply == Minimal(<<"Missing 'image' field in request">>)
InvalidJsonReply  == Minimal(<<"Invalid JSON format">>)
ServerErrorReply(e) == Minimal(<<"Server error: ">> \o e.msg)

\* what one inference call can do: return recognitions, return recognitions
\* whose raw word data json.dumps cannot encode, or raise
EngineOutcomes == {"ok", "ok_unserializable", "fault"}

(***************************************************************************)
(* Python semantics of the handler's expressions.                          *)
(***************************************************************************)
\* json.loads(message): raises json.JSONDecodeError or returns the value
json_loads_raises(body) == body.json = "invalid"

\* 'image' not in data: raises TypeError when data is no container
in_raises(body) == body.json = "number"
image_in(body) ==
    CASE body.json = "object" -> body.image # "absent"
      [] body.json = "array"  -> body.image = "element"
      [] OTHER -> FALSE

\* data['image']: a value for an object with the key, KeyError for an object
\* without it, TypeError for an array
subscript_fault(body) ==
    IF body.json = "object"
        THEN Fault("KeyError", <<"'image'">>)
        ELSE Fault("TypeError", <<"list indices must be integers or slices, not str">>)
subscript_raises(body) == ~(body.json = "object" /\ body.image # "absent")

\* base64_to_numpy: every failure inside it is re-raised as ValueError; as a
\* variant that hands every payload on to the engine
base64_to_numpy_raises_never(image) == FALSE

base64_to_numpy_raises(image) == image # "b64_image"
base64_to_numpy_fault == Fault("ValueError", <<"Failed to decode base64 image: ", "detail">>)

\* recognize_text: every failure of the engine call is re-raised as Exception
recognize_text_fault == Fault("Exception", <<"OCR recognition failed: ", "detail">>)

\* json.dumps(result) on a result that holds a numpy value
json_dumps_fault == Fault("TypeError", <<"Object of type float32 is not JSON serializable">>)

\* 'image' not in data, on a value that is no container
in_fault == Fault("TypeError", <<"argument of type 'int' is not iterable">>)

\* websocket.send on a closed connection
send_fault == Fault("ConnectionClosed", <<"no close frame received or sent">>)

(***************************************************************************)
(* The handler's control flow (handle_client).                             *)
(***************************************************************************)
SendPcs == {"send_missing", "send_result", "send_invalid_json", "send_server_error"}
HandlingPcs == {"process", "in_engine"} \cup SendPcs

\* where the handler goes once the frame of a send is written, as a variant
\* without the continue of the missing-field branch
AfterSend_no_continue(p) == IF p = "send_missing" THEN "process" ELSE "recv"

\* ... and as a variant that leaves the loop after an error reply
AfterSend_break_on_error(p) == IF p = "send_result" THEN "recv" ELSE "done"

AfterSend(p) == "recv"

\* where a send that raises leaves the handler: inside the inner try it is
\* caught by "except Exception"; inside an except clause it reaches the
\* outer try, which ends the handler
OnSendRaise(p) ==
    IF p \in {"send_missing", "send_result"} THEN "send_server_error" ELSE "done"

\* the positions at which a handler is suspended and the event loop is free
\* to run another one, as a variant in which the engine call is awaited
SuspensionPoints_engine_awaited == {"recv", "in_engine"}

SuspensionPoints == {"recv"}

\* the message "async for" hands to the handler, as a variant taking the newest
Dequeue_newest(q) == q[Len(q)]

Dequeue(q) == Head(q)

Remove(q, id) == SelectSeq(q, LAMBDA x : x # id)

\* the server after initialize_ocr has raised: start_server is left and the
\* process ends; as a variant that goes on to websockets.serve
OnInitFailure_serves == "serving"

OnInitFailure == "dead"

\* the server after a handler has returned (the outer try of handle_client
\* catches what ended it): it goes on serving; as a variant in which the end
\* of a handler ends the server
OnHandlerEnd_stops_server == "dead"

OnHandlerEnd == "serving"

(***************************************************************************)
(* State.                                                                  *)
(***************************************************************************)
VARIABLES
    \* ---- the classifier applied to one fault ----
    e_error,        \* the fault given to handle_ocr_error
    e_path,         \* the source path given with it
    e_response,     \* what handle_ocr_error returned (NoResponse before the call)
    \* ---- the assembler applied to the recognitions of one image ----
    a_raw,          \* the raw recognitions the engine returned
    a_pc,           \* "parse", "format", "done" ("idle": not run)
    a_findings,     \* what parse_results returned
    a_envelope,     \* what format_json returned (NoResponse before)
    \* ---- one call of a per-image entry point ----
    p_entry,        \* the entry point called ("none": no call)
    p_path,         \* image_path ("websocket_image" for the server's entry point)
    p_base64,       \* base64_image, a sequence of chunks (<<>> for a file entry point)
    p_viz,          \* config.enable_visualization
    p_pc,           \* the stage to run next, "done" after the return ("idle": no call)
    p_client,       \* the engine instance in hand: 0 none, 1 the caller's, 2 built by the call
    p_image,        \* what load_image / base64_to_numpy gave
    p_recognition,  \* what recognize_text returned
    p_findings,     \* what parse_results returned
    p_failed_at,    \* the stage that raised ("none": no stage did)
    p_result,       \* what the entry point returned (NoResponse before)
    p_raised,       \* TRUE when the fault left the entry point
    \* ---- the process ----
    mode,           \* which program runs: "server", "batch" (or "none")
    ocr_client,     \* the held engine instance: 0 is None, k the k-th created
    creations,      \* calls of get_ocr_client so far
    engine_used,    \* the instance the latest inference call was made on (0: none yet)
    \* ---- the server ----
    phase,          \* "new", "serving", "dead" (initialization failed)
    conn,           \* per connection: "idle", "open", "client_closed", "server_closed"
    pc,             \* per connection: where its handler is
    running,        \* the connection whose handler runs on the event loop, or 0
    inbox,          \* per connection: ids of the messages sent and not yet received
    clientSent,     \* per connection: messages the client has sent
    nRecv,          \* per connection: messages the handler has received
    nSent,          \* per connection: frames the server has sent
    cur,            \* per connection: the message being handled
    outcome,        \* per connection: what the engine did for it ("none": not called)
    reply,          \* per connection: the reply being sent
    failed,         \* per open connection: an earlier message of it got an error reply
    \* ---- the batch driver ----
    image_paths,    \* the input list of process_multiple_images
    b_pc,           \* "start", "loop", "returned"
    b_i,            \* 1-based index of the next item of the loop
    batch_results,  \* batch_info (the counts) and individual_results
    files,          \* the output directory: artifact name -> what it holds
    b_items         \* per item handled: what happened and which stages were called

classifierVars == <<e_error, e_path, e_response>>
assemblerVars == <<a_raw, a_pc, a_findings, a_envelope>>
pipelineVars == <<p_entry, p_path, p_base64, p_viz, p_pc, p_client, p_image, p_recognition,
                  p_findings, p_failed_at, p_result, p_raised>>
unitVars == <<classifierVars, assemblerVars, pipelineVars>>
engineVars == <<ocr_client, creations, engine_used>>
serverVars == <<phase, conn, pc, running, inbox, clientSent, nRecv, nSent, cur, outcome, reply,
                failed>>

batchVars == <<image_paths, b_pc, b_i, batch_results, files, b_items>>

vars == <<unitVars, mode, engineVars, serverVars, batchVars>>

(***************************************************************************)
(* The classifier on every fault and path.                                 *)
(***************************************************************************)
ClassifierInit ==
    /\ e_error \in Faults
    /\ e_path \in SourcePaths
    /\ e_response = NoResponse

ClassifierIdle ==
    /\ e_error = Fault("Exception", <<"unexpected">>)
    /\ e_path = "websocket_image"
    /\ e_response = NoResponse

\* except Exception as e: return handle_ocr_error(e, image_path)
Classify ==
    /\ e_response = NoResponse
    /\ e_response' = handle_ocr_error(e_error, e_path)
    /\ UNCHANGED <<e_error, e_path, assemblerVars, pipelineVars, mode, engineVars, serverVars, batchVars>>

(***************************************************************************)
(* The assembler on every list of raw recognitions: the steps 2 to 4 of    *)
(* the pipeline (parse_results, then format_json).                         *)
(***************************************************************************)
\* Raw recognitions, one for each way an entry can be shaped.
RawEntries ==
    { \* a region with word data: one word, characters at 0 and 5 of 30
      Recognition(Box(0, 0, 30, 10), 3, <<"H", "I">>, TRUE, 95, TRUE,
                  WordBoxData(4, 30, << <<"H", "I">> >>, << <<0, 5>> >>)),
      \* a rotated region without word data, its text padded with blanks
      Recognition(<<<<2, 0>>, <<32, 4>>, <<30, 14>>, <<0, 10>>>>, 2,
                  <<" ", "a", " ", " ", "b", " ">>, TRUE, 80, TRUE, NoWordBoxData),
      \* two words, a region of odd height
      Recognition(Box(10, 5, 30, 10), 3, <<"a", " ", "b", "c">>, TRUE, 80, TRUE,
                  WordBoxData(4, 10, << <<"a">>, <<"b", "c">> >>, << <<1>>, <<4, 7>> >>)),
      \* word data of 3 elements (no language list)
      Recognition(Box(0, 0, 20, 10), 3, <<"o", "k">>, TRUE, 60, TRUE,
                  WordBoxData(3, 20, << <<"o", "k">> >>, << <<0, 10>> >>)),
      \* word data whose total_width is 0: the mapping divides by it
      Recognition(Box(0, 0, 20, 10), 3, <<"n", "o">>, TRUE, 70, TRUE,
                  WordBoxData(4, 0, << <<"n", "o">> >>, << <<0, 1>> >>)),
      \* word data of 2 elements
      Recognition(Box(0, 0, 20, 10), 3, <<"t", "w">>, TRUE, 70, TRUE,
                  WordBoxData(2, 20, <<>>, <<>>)),
      \* three words, the second without characters
      Recognition(Box(0, 0, 40, 10), 3, <<"p", " ", "q">>, TRUE, 70, TRUE,
                  WordBoxData(4, 8, << <<"p">>, <<>>, <<"q">> >>, << <<1>>, <<3>>, <<8>> >>)),
      \* a word of three characters with two positions, then a whole word
      Recognition(Box(0, 0, 40, 10), 3, <<"u", "v", "w", " ", "z">>, TRUE, 70, TRUE,
                  WordBoxData(4, 8, << <<"u", "v", "w">>, <<"z">> >>, << <<0, 1>>, <<6>> >>)),
      \* a confidence the engine gives outside [0, 1]
      Recognition(Box(0, 20, 30, 30), 2, <<"a", "b">>, TRUE, 150, TRUE, NoWordBoxData),
      \* malformed: the confidence is missing (a 1-tuple)
      Recognition(Box(0, 40, 30, 50), 1, <<"x">>, TRUE, 0, FALSE, NoWordBoxData),
      \* malformed: the text is None
      Recognition(Box(0, 60, 30, 70), 2, <<>>, FALSE, 90, TRUE, NoWordBoxData),
      \* malformed: 3 corner points
      Recognition(<<<<0, 0>>, <<5, 0>>, <<5, 5>>>>, 2, <<"y">>, TRUE, 90, TRUE,
                  NoWordBoxData) }

AssemblerInit ==
    /\ a_raw \in UNION {[1..n -> RawEntries] : n \in 0..MaxRegions}
    /\ a_pc = "parse"
    /\ a_findings = <<>>
    /\ a_envelope = NoResponse

AssemblerIdle ==
    /\ a_raw = <<>>
    /\ a_pc = "idle"
    /\ a_findings = <<>>
    /\ a_envelope = NoResponse

\* findings = parse_results(recognition_results); a fault of it is funnelled
\* to handle_ocr_error by the caller
ParseResults ==
    /\ a_pc = "parse"
    /\ LET parsed == parse_results(a_raw) IN
        IF parsed.raised THEN
            /\ a_envelope' = handle_ocr_error(parse_results_fault, "websocket_image")
            /\ a_pc' = "done"
            /\ UNCHANGED a_findings
        ELSE
            /\ a_findings' = parsed.findings
            /\ a_pc' = "format"
            /\ UNCHANGED a_envelope
    /\ UNCHANGED <<a_raw, classifierVars, pipelineVars, mode, engineVars, serverVars, batchVars>>

\* json_result = format_json(findings=findings, ...)
FormatJson ==
    /\ a_pc = "format"
    /\ a_envelope' = format_json(a_findings)
    /\ a_pc' = "done"
    /\ UNCHANGED <<a_raw, a_findings, classifierVars, pipelineVars, mode, engineVars, serverVars, batchVars>>

(***************************************************************************)
(* The engine instance.                                                    *)
(***************************************************************************)
EngineInit ==
    /\ ocr_client = 0
    /\ creations = 0
    /\ engine_used = 0

\* the instance an inference call is made on, and the creations after it, as
\* a variant that builds a client for the call (as process_image_path does)
InstanceForCall_recreate == [id |-> creations + 1, creations |-> creations + 1]

\* recognize_text(self.ocr_client, image): the held instance, nothing created
InstanceForCall == [id |-> ocr_client, creations |-> creations]

(***************************************************************************)
(* The server.                                                             *)
(***************************************************************************)
ServerInit ==
    /\ phase = "new"
    /\ conn = [c \in Conns |-> "idle"]
    /\ pc = [c \in Conns |-> "none"]
    /\ running = 0
    /\ inbox = [c \in Conns |-> <<>>]
    /\ clientSent = [c \in Conns |-> 0]
    /\ nRecv = [c \in Conns |-> 0]
    /\ nSent = [c \in Conns |-> 0]
    /\ cur = [c \in Conns |-> NoMsg]
    /\ outcome = [c \in Conns |-> "none"]
    /\ reply = [c \in Conns |-> NoResponse]
    /\ failed = [c \in Conns |-> FALSE]

\* start_server: initialize_ocr, then websockets.serve. A failure of
\* get_ocr_client leaves start_server and ends the process (main logs it).
StartServer ==
    /\ mode = "server"
    /\ phase = "new"
    /\ \E ok \in BOOLEAN :
        /\ creations' = creations + 1
        /\ ocr_client' = IF ok THEN creations + 1 ELSE ocr_client
        /\ phase' = IF ok THEN "serving" ELSE OnInitFailure
    /\ UNCHANGED <<engine_used, conn, pc, running, inbox, clientSent, nRecv, nSent,
                   cur, outcome, reply, mode, unitVars, batchVars, failed>>

\* a client connects: websockets starts handle_client, which runs to its
\* first "async for" and is suspended there
Accept(c) ==
    /\ phase = "serving"
    /\ running = 0
    /\ conn[c] = "idle"
    /\ conn' = [conn EXCEPT ![c] = "open"]
    /\ pc' = [pc EXCEPT ![c] = "recv"]
    /\ UNCHANGED <<phase, running, inbox, clientSent, nRecv, nSent, cur, outcome, reply,
                   mode, engineVars, unitVars, batchVars, failed>>

\* the client sends its next message; it does not wait for earlier replies
ClientSend(c) ==
    /\ conn[c] = "open"
    /\ clientSent[c] < MaxMsgs
    /\ clientSent' = [clientSent EXCEPT ![c] = @ + 1]
    /\ inbox' = [inbox EXCEPT ![c] = Append(@, clientSent[c] + 1)]
    /\ UNCHANGED <<phase, conn, pc, running, nRecv, nSent, cur, outcome, reply, failed,
                   mode, engineVars, unitVars, batchVars>>

\* the client closes its connection, at any point
ClientClose(c) ==
    /\ conn[c] = "open"
    /\ conn' = [conn EXCEPT ![c] = "client_closed"]
    /\ failed' = [failed EXCEPT ![c] = FALSE]
    /\ UNCHANGED <<phase, pc, running, inbox, clientSent, nRecv, nSent, cur, outcome, reply,
                   mode, engineVars, unitVars, batchVars>>

\* async for message in websocket: the suspended handler is resumed with a
\* message and runs, without a suspension, data = json.loads(message) and
\* the test 'image' not in data
Receive(c) ==
    /\ running = 0
    /\ pc[c] = "recv"
    /\ inbox[c] # <<>>
    /\ \E body \in Messages :
        /\ cur' = [cur EXCEPT ![c] = [id |-> Dequeue(inbox[c]), body |-> body]]
        /\ IF json_loads_raises(body) THEN
                /\ pc' = [pc EXCEPT ![c] = "send_invalid_json"]
                /\ reply' = [reply EXCEPT ![c] = InvalidJsonReply]
           ELSE IF in_raises(body) THEN
                /\ pc' = [pc EXCEPT ![c] = "send_server_error"]
                /\ reply' = [reply EXCEPT ![c] = ServerErrorReply(in_fault)]
           ELSE IF ~image_in(body) THEN
                /\ pc' = [pc EXCEPT ![c] = "send_missing"]
                /\ reply' = [reply EXCEPT ![c] = MissingImageReply]
           ELSE
                /\ pc' = [pc EXCEPT ![c] = "process"]
                /\ UNCHANGED reply
    /\ inbox' = [inbox EXCEPT ![c] = Remove(@, Dequeue(inbox[c]))]
    /\ nRecv' = [nRecv EXCEPT ![c] = @ + 1]
    /\ outcome' = [outcome EXCEPT ![c] = "none"]
    /\ running' = c
    /\ UNCHANGED <<phase, conn, clientSent, nSent, failed,
                   mode, engineVars, unitVars, batchVars>>

\* the handler has returned: websockets tears the connection down, the frames
\* still buffered for it are dropped and its bookkeeping ends
Forget(c) ==
    /\ inbox' = [inbox EXCEPT ![c] = <<>>]
    /\ clientSent' = [clientSent EXCEPT ![c] = 0]
    /\ nRecv' = [nRecv EXCEPT ![c] = 0]
    /\ nSent' = [nSent EXCEPT ![c] = 0]
    /\ failed' = [failed EXCEPT ![c] = FALSE]

\* async for on a closed connection: the iteration ends (or raises
\* ConnectionClosed, caught by the outer try) and the handler returns
HandlerExit(c) ==
    /\ running = 0
    /\ pc[c] = "recv"
    /\ conn[c] = "client_closed"
    /\ pc' = [pc EXCEPT ![c] = "done"]
    /\ phase' = OnHandlerEnd
    /\ Forget(c)
    /\ UNCHANGED <<conn, running, cur, outcome, reply,
                   mode, engineVars, unitVars, batchVars>>

\* result = await self.process_image_websocket(data['image']), up to the
\* engine call: the subscript, base64_to_numpy, then recognize_text begins
Process(c) ==
    /\ running = c
    /\ pc[c] = "process"
    /\ LET body == cur[c].body IN
        IF subscript_raises(body) THEN
            /\ pc' = [pc EXCEPT ![c] = "send_server_error"]
            /\ reply' = [reply EXCEPT ![c] = ServerErrorReply(subscript_fault(body))]
            /\ UNCHANGED <<running, engineVars>>
        ELSE IF base64_to_numpy_raises(body.image) THEN
            /\ pc' = [pc EXCEPT ![c] = "send_result"]
            /\ reply' = [reply EXCEPT ![c] =
                            handle_ocr_error(base64_to_numpy_fault, "websocket_image")]
            /\ UNCHANGED <<running, engineVars>>
        ELSE
            /\ pc' = [pc EXCEPT ![c] = "in_engine"]
            /\ engine_used' = InstanceForCall.id
            /\ creations' = InstanceForCall.creations
            /\ running' = IF "in_engine" \in SuspensionPoints THEN 0 ELSE c
            /\ UNCHANGED <<reply, ocr_client>>
    /\ UNCHANGED <<phase, conn, inbox, clientSent, nRecv, nSent, cur, outcome, failed,
                   mode, unitVars, batchVars>>

\* the engine call returns or raises; parse_results, format_json and the
\* json.dumps of line 148 follow without a suspension
EngineReturn(c) ==
    /\ pc[c] = "in_engine"
    /\ running = IF "in_engine" \in SuspensionPoints THEN 0 ELSE c
    /\ \E o \in EngineOutcomes :
        /\ outcome' = [outcome EXCEPT ![c] = o]
        /\ CASE o = "ok" ->
                /\ pc' = [pc EXCEPT ![c] = "send_result"]
                /\ reply' = [reply EXCEPT ![c] = format_json(EngineFindings)]
             [] o = "ok_unserializable" ->
                /\ pc' = [pc EXCEPT ![c] = "send_server_error"]
                /\ reply' = [reply EXCEPT ![c] = ServerErrorReply(json_dumps_fault)]
             [] o = "fault" ->
                /\ pc' = [pc EXCEPT ![c] = "send_result"]
                /\ reply' = [reply EXCEPT ![c] =
                                handle_ocr_error(recognize_text_fault, "websocket_image")]
    /\ running' = c
    /\ UNCHANGED <<phase, conn, inbox, clientSent, nRecv, nSent, cur, failed,
                   mode, engineVars, unitVars, batchVars>>

\* await websocket.send(...): on an open connection the frame is written and
\* the handler goes on (the logging of lines 151-157 raises nothing); on a
\* closed one send raises ConnectionClosed
Send(c) ==
    /\ running = c
    /\ pc[c] \in SendPcs
    /\ IF conn[c] = "open" THEN
            LET next == AfterSend(pc[c]) IN
            /\ pc' = [pc EXCEPT ![c] = next]
            /\ running' = IF next \in SuspensionPoints \cup {"done"} THEN 0 ELSE c
            /\ phase' = IF next = "done" THEN OnHandlerEnd ELSE phase
            /\ conn' = [conn EXCEPT ![c] = IF next = "done" THEN "server_closed" ELSE @]
            /\ IF next = "done"
                 THEN Forget(c)
                 ELSE /\ nSent' = [nSent EXCEPT ![c] = @ + 1]
                      /\ failed' = [failed EXCEPT ![c] = @ \/ ~reply[c].success]
                      /\ UNCHANGED <<inbox, clientSent, nRecv>>
            /\ IF next \in {"recv", "done"}
                 THEN /\ cur' = [cur EXCEPT ![c] = NoMsg]
                      /\ outcome' = [outcome EXCEPT ![c] = "none"]
                      /\ reply' = [reply EXCEPT ![c] = NoResponse]
                 ELSE UNCHANGED <<cur, outcome, reply>>
       ELSE
            LET next == OnSendRaise(pc[c]) IN
            /\ pc' = [pc EXCEPT ![c] = next]
            /\ running' = IF next = "done" THEN 0 ELSE c
            /\ phase' = IF next = "done" THEN OnHandlerEnd ELSE phase
            /\ IF next = "done"
                 THEN /\ cur' = [cur EXCEPT ![c] = NoMsg]
                      /\ outcome' = [outcome EXCEPT ![c] = "none"]
                      /\ reply' = [reply EXCEPT ![c] = NoResponse]
                      /\ Forget(c)
                 ELSE /\ reply' = [reply EXCEPT ![c] = ServerErrorReply(send_fault)]
                      /\ UNCHANGED <<cur, outcome, inbox, clientSent, nRecv, nSent, failed>>
            /\ UNCHANGED conn
    /\ UNCHANGED <<mode, engineVars, unitVars, batchVars>>

ServerNext ==
    \/ StartServer
    \/ \E c \in Conns : Accept(c)
    \/ \E c \in Conns : ClientSend(c)
    \/ \E c \in Conns : ClientClose(c)
    \/ \E c \in Conns : Receive(c)
    \/ \E c \in Conns : HandlerExit(c)
    \/ \E c \in Conns : Process(c)
    \/ \E c \in Conns : EngineReturn(c)
    \/ \E c \in Conns : Send(c)

(***************************************************************************)
(* The batch driver (process_multiple_images).                             *)
(***************************************************************************)
BatchPaths == SourcePaths \ {"websocket_image"}

\* os.path.exists: the files that are there when the batch runs
ExistingFiles == {"input/1.png", "input/1.jpg", "scans/2.png"}
\* a directory, and a file that holds no image
Directories == {"input"}
OtherFiles == {"input/notes.txt"}
os_path_exists(path) == path \in ExistingFiles \cup Directories \cup OtherFiles
os_path_isfile(path) == path \in ExistingFiles \cup OtherFiles

\* Path(image_path).stem
Stem(path) ==
    CASE path = "input/1.png"    -> "1"
      [] path = "input/1.jpg"    -> "1"
      [] path = "scans/2.png"    -> "2"
      [] path = "input/gone.png" -> "gone"
      [] OTHER                   -> path

\* f"{output_dir}/{base_name}_result.json" and ..._result.png
OutputJson(path)  == <<Stem(path), "_result.json">>
OutputImage(path) == <<Stem(path), "_result.png">>
SummaryPath == <<"batch_summary", ".json">>

ArtifactNames ==
    {OutputJson(p) : p \in BatchPaths} \cup {OutputImage(p) : p \in BatchPaths}
        \cup {SummaryPath}

\* what an artifact holds: nothing, or a body written for a source path
Absent == [src |-> None, body |-> NoResponse]
Written(path, body) == [src |-> path, body |-> body]
\* a file that open(..., 'w') created and json.dump left unfinished
Partial == [form |-> "partial"]
\* the annotated image cv2.imwrite saves
AnnotatedImage == [form |-> "image"]

\* What the collaborators do for one item whose file exists: the engine
\* returns or raises, open() of the artifact raises, json.dump raises midway.
ItemOutcomes == {"ok", "engine_fault", "open_fault", "dump_fault"}

open_fault == Fault("PermissionError", <<"[Errno 13] Permission denied: ", "output">>)

\* the test of line 142, as a variant that never finds an input missing
ItemIsMissing_unchecked(path) == FALSE

ItemIsMissing(path) == ~os_path_exists(path)

\* process_image_with_client: the stages it calls ...
PipelineCalls(path, o) ==
    IF ~os_path_exists(path) THEN {"load"}
    ELSE IF o = "engine_fault" THEN {"load", "infer"}
    ELSE {"load", "infer", "assemble", "visualize", "format"}

\* ... and the envelope it returns: it raises nothing
process_image_with_client(path, o) ==
    IF ~os_path_exists(path)
        THEN handle_ocr_error(Fault("FileNotFoundError", <<"Image file not found: ", path>>), path)
    ELSE IF o = "engine_fault"
        THEN handle_ocr_error(recognize_text_fault, path)
    ELSE format_json(EngineFindings)

\* the entries of individual_results
MissingEntry(path) ==
    [image_path |-> path, success |-> FALSE, error |-> <<"File not found">>,
     processing_time |-> 0]
SuccessEntry(path, result) ==
    [image_path |-> path, success |-> TRUE,
     text_regions_found |-> result.total_text_regions,
     processing_time |-> 1,
     output_json |-> OutputJson(path), output_image |-> OutputImage(path)]
FailedEntry(path, message) ==
    [image_path |-> path, success |-> FALSE, error |-> message, processing_time |-> 1]

\* batch_results with an entry appended and its count raised, as a variant
\* of the failure branches that appends without counting
Record_failures_uncounted(br, entry) ==
    [batch_info |->
        [br.batch_info EXCEPT
            !.processed_images = IF entry.success THEN @ + 1 ELSE @],
     individual_results |-> Append(br.individual_results, entry)]

Record(br, entry) ==
    [batch_info |->
        [br.batch_info EXCEPT
            !.processed_images = IF entry.success THEN @ + 1 ELSE @,
            !.failed_images    = IF entry.success THEN @ ELSE @ + 1],
     individual_results |-> Append(br.individual_results, entry)]

\* where an exception raised inside the per-item try leaves the driver: the
\* inner except records it and the loop goes on; as a variant without the
\* inner try, it reaches the outer except and the function returns
OnItemException_propagates == "returned"

OnItemException == "loop"

BatchInit ==
    /\ image_paths \in UNION {[1..n -> BatchPaths] : n \in 0..MaxBatch}
    /\ b_pc = "start"
    /\ b_i = 1
    /\ batch_results =
        [batch_info |-> [total_images |-> Len(image_paths),
                         processed_images |-> 0, failed_images |-> 0],
         individual_results |-> <<>>]
    /\ files = [n \in ArtifactNames |-> Absent]
    /\ b_items = <<>>

BatchIdle ==
    /\ image_paths = <<>>
    /\ b_pc = "start"
    /\ b_i = 1
    /\ batch_results =
        [batch_info |-> [total_images |-> 0, processed_images |-> 0, failed_images |-> 0],
         individual_results |-> <<>>]
    /\ files = [n \in ArtifactNames |-> Absent]
    /\ b_items = <<>>

\* lines 124-131: the client is created once; a failure reaches the outer
\* except, which returns batch_results as they are
BatchStart ==
    /\ mode = "batch"
    /\ b_pc = "start"
    /\ \E ok \in BOOLEAN :
        /\ creations' = creations + 1
        /\ ocr_client' = IF ok THEN creations + 1 ELSE ocr_client
        /\ b_pc' = IF ok THEN "loop" ELSE "returned"
    /\ UNCHANGED <<engine_used, image_paths, b_i, batch_results, files, b_items,
                   mode, unitVars, serverVars>>

\* one iteration of the loop of lines 138-204
BatchItem ==
    /\ mode = "batch"
    /\ b_pc = "loop"
    /\ b_i <= Len(image_paths)
    /\ LET path == image_paths[b_i] IN
        IF ItemIsMissing(path) THEN
            /\ batch_results' = Record(batch_results, MissingEntry(path))
            /\ b_items' = Append(b_items, [outcome |-> "missing", calls |-> {}, wrote |-> {}])
            /\ b_i' = b_i + 1
            /\ UNCHANGED <<files, b_pc, engineVars>>
        ELSE \E o \in ItemOutcomes :
            LET result == process_image_with_client(path, o)
                calls  == PipelineCalls(path, o)
                png    == IF "visualize" \in calls
                            THEN [files EXCEPT ![OutputImage(path)] = Written(path, AnnotatedImage)]
                            ELSE files
                inst   == InstanceForCall
            IN
            /\ engine_used' = IF "infer" \in calls THEN inst.id ELSE engine_used
            /\ creations' = IF "infer" \in calls THEN inst.creations ELSE creations
            /\ UNCHANGED ocr_client
            /\ IF o \in {"open_fault", "dump_fault"} THEN
                    \* the with-block of lines 168-169 raises
                    /\ files' = IF o = "dump_fault"
                                  THEN [png EXCEPT ![OutputJson(path)] = Written(path, Partial)]
                                  ELSE png
                    /\ b_items' = Append(b_items,
                            [outcome |-> o, calls |-> calls,
                             wrote |-> IF o = "dump_fault" THEN {OutputJson(path)} ELSE {}])
                    /\ IF OnItemException = "loop" THEN
                            /\ batch_results' = Record(batch_results,
                                    FailedEntry(path, IF o = "open_fault" THEN open_fault.msg
                                                      ELSE json_dumps_fault.msg))
                            /\ b_i' = b_i + 1
                            /\ UNCHANGED b_pc
                       ELSE
                            /\ b_pc' = OnItemException
                            /\ UNCHANGED <<batch_results, b_i>>
               ELSE
                    /\ files' = [png EXCEPT ![OutputJson(path)] = Written(path, result)]
                    /\ b_items' = Append(b_items,
                            [outcome |-> o, calls |-> calls, wrote |-> {OutputJson(path)}])
                    /\ batch_results' = Record(batch_results,
                            IF result.success THEN SuccessEntry(path, result)
                            ELSE FailedEntry(path, result.error.message))
                    /\ b_i' = b_i + 1
                    /\ UNCHANGED b_pc
    /\ UNCHANGED <<image_paths, mode, unitVars, serverVars>>

\* lines 206-235: the statistics and the summary artifact. The ratio of line
\* 224 divides by the measured batch time, which can be 0.0 when no item ran
\* the pipeline; the ZeroDivisionError reaches the outer except.
BatchFinish ==
    /\ mode = "batch"
    /\ b_pc = "loop"
    /\ b_i > Len(image_paths)
    /\ \E zero_time \in BOOLEAN :
        /\ zero_time => \A k \in 1..Len(b_items) : b_items[k].outcome = "missing"
        /\ files' = IF zero_time /\ Len(image_paths) > 1
                      THEN files
                      ELSE [files EXCEPT ![SummaryPath] =
                                Written(None, [form |-> "summary", results |-> batch_results])]
    /\ b_pc' = "returned"
    /\ UNCHANGED <<image_paths, b_i, batch_results, b_items,
                   mode, engineVars, unitVars, serverVars>>

BatchNext == BatchStart \/ BatchItem \/ BatchFinish

(***************************************************************************)
(* The per-image pipeline behind the three entry points: process_image_path, *)
(* process_image_with_client and process_image_websocket.                  *)
(***************************************************************************)
EntryPoints == {"process_image_path", "process_image_with_client", "process_image_websocket"}
FileEntryPoints == {"process_image_path", "process_image_with_client"}

\* what a call gives: a value, or a fault it raises
NoFault == Fault(None, <<>>)
Raised(fault) == [raised |-> TRUE, fault |-> fault, value |-> None]
Returned(value) == [raised |-> FALSE, fault |-> NoFault, value |-> value]

\* the paths the file entry points are called with: an image file, a path
\* of nothing, a directory, a file that is no image
PipelinePaths == {"input/1.png", "input/1.jpg", "input/gone.png", "input", "input/notes.txt"}

\* cv2.imread(image_path): the picture of an image file, None for any other
cv2_imread(path) ==
    CASE path = "input/1.png" -> "receipt"
      [] path = "input/1.jpg" -> "invoice"
      [] path = "scans/2.png" -> "scan"
      [] OTHER -> None

load_image(image_path) ==
    IF ~os_path_exists(image_path)
        THEN Raised(Fault("FileNotFoundError", <<"Image file not found: ", image_path>>))
    ELSE IF ~os_path_isfile(image_path)
        THEN Raised(Fault("ValueError", <<"Path is not a file: ", image_path>>))
    ELSE IF cv2_imread(image_path) = None
        THEN Raised(Fault("ValueError", <<"Could not load image from: ", image_path>>))
    ELSE Returned(cv2_imread(image_path))

\* A base64 string is a sequence of chunks. The payloads: the base64 text of
\* a PNG file, of a JPEG file, of a text file, and a text cut short (its
\* length is no multiple of 4).
Payloads == {"iVBORw0KGgo=", "/9j/4AAQSkY=", "aGVsbG8=", "iVBORw0KG"}
MimeTypes == {<<"image", "/png">>, <<"image", "/jpeg">>, <<"application", "/octet-stream">>}

DataUri(mime, payload) == <<"data:">> \o mime \o <<";base64", ",", payload>>

Base64Strings ==
    {<<P>> : P \in Payloads}
        \cup {DataUri(M, P) : M \in MimeTypes, P \in Payloads}
        \cup {<<"data:", "image", "/png">>}

\* base64_string.startswith(prefix)
startswith(string, prefix) ==
    Len(string) >= Len(prefix) /\ SubSeq(string, 1, Len(prefix)) = prefix

\* base64_string.split(','): the places of the commas, and the piece [1]
Commas(string) == {k \in 1..Len(string) : string[k] = ","}
split_comma_1(string) ==
    LET first == MinOf(Commas(string))
        later == {k \in Commas(string) : k > first}
    IN SubSeq(string, first + 1, IF later = {} THEN Len(string) ELSE MinOf(later) - 1)

\* what b64decode keeps of a chunk: the characters of the base64 alphabet
\* (validate is False, so every other character is discarded)
Base64Alphabet(chunk) ==
    CASE chunk = "data:" -> "data"
      [] chunk = ";base64" -> "base64"
      [] chunk = "," -> ""
      [] chunk = "/octet-stream" -> "/octetstream"
      [] OTHER -> chunk

\* base64.b64decode(base64_string): the bytes of the file for a payload
\* alone; binascii.Error for a text cut short; with other characters in front
\* of the payload, bytes that begin with what those characters decode to
b64decode(string) ==
    LET kept == SelectSeq([k \in 1..Len(string) |-> Base64Alphabet(string[k])],
                          LAMBDA chunk : chunk # "")
    IN  IF kept = <<"iVBORw0KGgo=">> THEN Returned("png_file")
        ELSE IF kept = <<"/9j/4AAQSkY=">> THEN Returned("jpeg_file")
        ELSE IF kept = <<"aGVsbG8=">> THEN Returned("text_file")
        ELSE IF kept = <<"iVBORw0KG">>
            THEN Raised(Fault("Exception", <<"Incorrect padding">>))
        ELSE Returned("noise")

\* Image.open(io.BytesIO(image_bytes)): the format is told from the first bytes
Image_open(image_bytes) ==
    CASE image_bytes = "png_file" -> Returned("receipt")
      [] image_bytes = "jpeg_file" -> Returned("invoice")
      [] OTHER -> Raised(Fault("Exception", <<"cannot identify image file">>))

\* base64_to_numpy: the prefix is removed from a string that starts with
\* 'data:image'; every failure is re-raised as ValueError
base64_to_numpy(base64_string) ==
    IF startswith(base64_string, <<"data:", "image">>) /\ Commas(base64_string) = {}
        THEN Raised(base64_to_numpy_fault)
    ELSE
        LET stripped == IF startswith(base64_string, <<"data:", "image">>)
                            THEN split_comma_1(base64_string)
                            ELSE base64_string
            image_bytes == b64decode(stripped)
        IN  IF image_bytes.raised THEN Raised(base64_to_numpy_fault)
            ELSE IF Image_open(image_bytes.value).raised THEN Raised(base64_to_numpy_fault)
            ELSE Image_open(image_bytes.value)

\* what ocr_client.ocr gives for a picture (raw_results[0])
RecognitionsOf(picture) ==
    CASE picture = "receipt" -> EngineRecognitions
      [] picture = "invoice" ->
            << Recognition(Box(0, 40, 30, 50), 1, <<"x">>, TRUE, 0, FALSE, NoWordBoxData),
               Recognition(Box(0, 20, 30, 30), 2, <<"a", "b">>, TRUE, 80, TRUE, NoWordBoxData) >>
      [] OTHER -> <<>>

\* what recognize_text returns: a list of entries, or a value that is none
Recognitions(entries) == [is_list |-> TRUE, entries |-> entries]
NotAList == [is_list |-> FALSE, entries |-> <<>>]

\* faults of the stages that the surroundings cause
get_ocr_client_fault == Fault("RuntimeError", <<"unexpected">>)
create_visualization_fault == Fault("Exception", <<"unexpected">>)
format_json_fault == Fault("AttributeError", <<"unexpected">>)

Stages == {"load", "client", "infer", "parse", "visualize", "format"}

\* the stages inside the try of the entry point, as a variant in which the
\* try begins after the image is loaded
TryCovers_after_load(stage) == stage # "load"

TryCovers(stage) == stage \in Stages

\* the stage after a stage that returned
NextStage(stage) ==
    CASE stage = "load" -> IF p_entry = "process_image_path" THEN "client" ELSE "infer"
      [] stage = "client" -> "infer"
      [] stage = "infer" -> "parse"
      [] stage = "parse" ->
            IF p_entry \in FileEntryPoints /\ p_viz THEN "visualize" ELSE "format"
      [] stage = "visualize" -> "format"
      [] OTHER -> "done"

PipelineInit ==
    /\ p_entry \in EntryPoints
    /\ IF p_entry = "process_image_websocket"
        THEN p_path = "websocket_image" /\ p_base64 \in Base64Strings /\ p_viz = FALSE
        ELSE p_path \in PipelinePaths /\ p_base64 = <<>> /\ p_viz \in BOOLEAN
    /\ p_pc = "load"
    /\ p_client = IF p_entry = "process_image_path" THEN 0 ELSE 1
    /\ p_image = Returned(None)
    /\ p_recognition = Recognitions(<<>>)
    /\ p_findings = <<>>
    /\ p_failed_at = "none"
    /\ p_result = NoResponse
    /\ p_raised = FALSE

PipelineIdle ==
    /\ p_entry = "none"
    /\ p_path = "websocket_image"
    /\ p_base64 = <<>>
    /\ p_viz = FALSE
    /\ p_pc = "idle"
    /\ p_client = 0
    /\ p_image = Returned(None)
    /\ p_recognition = Recognitions(<<>>)
    /\ p_findings = <<>>
    /\ p_failed_at = "none"
    /\ p_result = NoResponse
    /\ p_raised = FALSE

\* a stage raised: except Exception as e: return handle_ocr_error(e, image_path)
Funnel(stage, fault) ==
    /\ p_pc' = "done"
    /\ p_failed_at' = stage
    /\ IF TryCovers(stage)
        THEN p_result' = handle_ocr_error(fault, p_path) /\ p_raised' = FALSE
        ELSE p_result' = NoResponse /\ p_raised' = TRUE

\* a stage returned
Proceed(stage) ==
    /\ p_pc' = NextStage(stage)
    /\ UNCHANGED <<p_failed_at, p_result, p_raised>>

pipelineRest == <<classifierVars, assemblerVars, mode, engineVars, serverVars, batchVars>>

\* image = load_image(image_path)
StageLoad ==
    /\ p_pc = "load"
    /\ p_entry \in FileEntryPoints
    /\ p_image' = load_image(p_path)
    /\ IF p_image'.raised THEN Funnel("load", p_image'.fault) ELSE Proceed("load")
    /\ UNCHANGED <<p_entry, p_path, p_base64, p_viz, p_client, p_recognition, p_findings,
                   pipelineRest>>

\* image = self.base64_to_numpy(base64_image)
StageDecode ==
    /\ p_pc = "load"
    /\ p_entry = "process_image_websocket"
    /\ p_image' = base64_to_numpy(p_base64)
    /\ IF p_image'.raised THEN Funnel("load", p_image'.fault) ELSE Proceed("load")
    /\ UNCHANGED <<p_entry, p_path, p_base64, p_viz, p_client, p_recognition, p_findings,
                   pipelineRest>>

\* ocr_client = get_ocr_client(config): builds an engine instance for the call
StageClient ==
    /\ p_pc = "client"
    /\ \/ /\ p_client' = 2
          /\ Proceed("client")
       \/ /\ Funnel("client", get_ocr_client_fault)
          /\ UNCHANGED p_client
    /\ UNCHANGED <<p_entry, p_path, p_base64, p_viz, p_image, p_recognition, p_findings,
                   pipelineRest>>

\* recognition_results = recognize_text(ocr_client, image)
StageInfer ==
    /\ p_pc = "infer"
    /\ \/ /\ p_recognition' = Recognitions(RecognitionsOf(p_image.value))
          /\ Proceed("infer")
       \/ /\ p_recognition' = NotAList
          /\ Proceed("infer")
       \/ /\ Funnel("infer", recognize_text_fault)
          /\ UNCHANGED p_recognition
    /\ UNCHANGED <<p_entry, p_path, p_base64, p_viz, p_client, p_image, p_findings,
                   pipelineRest>>

\* findings = parse_results(recognition_results)
StageParse ==
    /\ p_pc = "parse"
    /\ IF ~p_recognition.is_list \/ parse_results(p_recognition.entries).raised
        THEN /\ Funnel("parse", parse_results_fault)
             /\ UNCHANGED p_findings
        ELSE /\ p_findings' = parse_results(p_recognition.entries).findings
             /\ Proceed("parse")
    /\ UNCHANGED <<p_entry, p_path, p_base64, p_viz, p_client, p_image, p_recognition,
                   pipelineRest>>

\* visualization_result = create_visualization(...)
StageVisualize ==
    /\ p_pc = "visualize"
    /\ \/ Proceed("visualize")
       \/ Funnel("visualize", create_visualization_fault)
    /\ UNCHANGED <<p_entry, p_path, p_base64, p_viz, p_client, p_image, p_recognition,
                   p_findings, pipelineRest>>

\* json_result = format_json(...); return json_result
StageFormat ==
    /\ p_pc = "format"
    /\ \/ /\ p_pc' = "done"
          /\ p_result' = format_json(p_findings)
          /\ UNCHANGED <<p_failed_at, p_raised>>
       \/ Funnel("format", format_json_fault)
    /\ UNCHANGED <<p_entry, p_path, p_base64, p_viz, p_client, p_image, p_recognition,
                   p_findings, pipelineRest>>

PipelineNext ==
    \/ StageLoad
    \/ StageDecode
    \/ StageClient
    \/ StageInfer
    \/ StageParse
    \/ StageVisualize
    \/ StageFormat

(***************************************************************************)
(* Specifications.                                                         *)
(***************************************************************************)
\* the classifier alone, on every fault and path
InitClassifier ==
    /\ ClassifierInit
    /\ AssemblerIdle
    /\ PipelineIdle
    /\ mode = "none"
    /\ EngineInit
    /\ ServerInit
    /\ BatchIdle

NextClassifier == Classify

SpecClassifier == InitClassifier /\ [][NextClassifier]_vars

\* the assembler alone, on every list of raw recognitions
InitAssembler ==
    /\ ClassifierIdle
    /\ AssemblerInit
    /\ PipelineIdle
    /\ mode = "none"
    /\ EngineInit
    /\ ServerInit
    /\ BatchIdle

NextAssembler == ParseResults \/ FormatJson

SpecAssembler == InitAssembler /\ [][NextAssembler]_vars

\* the two programs: the server, or the batch driver
\* one call of a per-image entry point, on every input of the model
InitPipeline ==
    /\ ClassifierIdle
    /\ AssemblerIdle
    /\ PipelineInit
    /\ mode = "none"
    /\ EngineInit
    /\ ServerInit
    /\ BatchIdle

NextPipeline == PipelineNext

SpecPipeline == InitPipeline /\ [][NextPipeline]_vars

Init ==
    /\ ClassifierIdle
    /\ AssemblerIdle
    /\ PipelineIdle
    /\ EngineInit
    /\ ServerInit
    /\ \/ mode = "server" /\ BatchIdle
       \/ mode = "batch" /\ BatchInit

Next == ServerNext \/ BatchNext

Spec == Init /\ [][Next]_vars

(***************************************************************************)
(* Properties of the Error Classifier (checked under SpecClassifier).      *)
(***************************************************************************)
ErrorKinds == {"FILE_NOT_FOUND", "INVALID_IMAGE", "PERMISSION_DENIED", "PROCESSING_ERROR"}

\* the classes of Python's hierarchy that are value or decoding faults
ValueFaultClasses == {"ValueError", "UnicodeDecodeError"}

\* C9: for every fault and every source path handle_ocr_error returns an
\* envelope whose error.type is one of the four kinds: FILE_NOT_FOUND for a
\* file-not-found fault, INVALID_IMAGE for a value or decoding fault,
\* PERMISSION_DENIED for a permission fault, PROCESSING_ERROR for every other.
C9_ClassifierTotalMapping ==
    e_response # NoResponse =>
        /\ e_response.form = "envelope"
        /\ ~e_response.success
        /\ e_response.error.type \in ErrorKinds
        /\ e_error.cls = "FileNotFoundError" => e_response.error.type = "FILE_NOT_FOUND"
        /\ e_error.cls \in ValueFaultClasses => e_response.error.type = "INVALID_IMAGE"
        /\ e_error.cls = "PermissionError" => e_response.error.type = "PERMISSION_DENIED"
        /\ e_error.cls \notin {"FileNotFoundError", "PermissionError"} \cup ValueFaultClasses
            => e_response.error.type = "PROCESSING_ERROR"

\* a permission fault, which is also an OSError, has been classified
C9_Witness ==
    /\ e_error.cls = "PermissionError"
    /\ e_response # NoResponse
    /\ e_response.error.type = "PERMISSION_DENIED"

\* C10: the error envelope carries a diagnostic trace if and only if its
\* error.type is PROCESSING_ERROR; the three other kinds carry none.
C10_TraceOnlyForCatchAll ==
    e_response # NoResponse =>
        (e_response.error.traceback # None <=> e_response.error.type = "PROCESSING_ERROR")

\* a fault of a kind other than the catch-all has been classified, without trace
C10_Witness ==
    /\ e_response # NoResponse
    /\ e_response.error.type = "INVALID_IMAGE"
    /\ e_response.error.traceback = None

\* the fixed text each kind's message starts with
MessageTemplate(kind) ==
    CASE kind = "FILE_NOT_FOUND"    -> "Image file not found: "
      [] kind = "INVALID_IMAGE"     -> "Invalid image file: "
      [] kind = "PERMISSION_DENIED" -> "Permission denied accessing file: "
      [] kind = "PROCESSING_ERROR"  -> "OCR processing failed: "

\* a text (a sequence of parts) holds the part
Includes(text, part) == \E k \in 1..Len(text) : text[k] = part

\* C11 (as stated): for each of the four kinds the message is built from
\* the kind's template and includes the source path given to the classifier.
C11_MessageIncludesPath ==
    e_response # NoResponse =>
        /\ e_response.error.message[1] = MessageTemplate(e_response.error.type)
        /\ Includes(e_response.error.message, e_path)

\* C11 (amended): the message starts with the kind's template; for
\* FILE_NOT_FOUND and PERMISSION_DENIED it is the template followed by the
\* source path, for INVALID_IMAGE and PROCESSING_ERROR it is the template
\* followed by the fault's own text; the path is always in error.image_path.
C11_MessageTemplated ==
    e_response # NoResponse =>
        LET err == e_response.error IN
        /\ err.message[1] = MessageTemplate(err.type)
        /\ err.image_path = e_path
        /\ err.type \in {"FILE_NOT_FOUND", "PERMISSION_DENIED"} =>
                err.message = <<MessageTemplate(err.type), e_path>>
        /\ err.type \in {"INVALID_IMAGE", "PROCESSING_ERROR"} =>
                err.message = <<MessageTemplate(err.type)>> \o e_error.msg

\* a value fault whose text names no path has been classified: its message
\* holds the fault's text and not the source path
C11_Witness ==
    /\ e_response # NoResponse
    /\ e_response.error.type = "INVALID_IMAGE"
    /\ e_error.msg = <<"unexpected">>
    /\ ~Includes(e_response.error.message, e_path)
    /\ e_response.error.image_path = e_path

(***************************************************************************)
(* Properties of the Protocol Server (checked under Spec).                 *)
(***************************************************************************)
\* the reply a message gets on a connection that has handled nothing before
\* it, given what the engine does for it
FreshReply(body, o) ==
    CASE body.json = "invalid" -> InvalidJsonReply
      [] body.json = "number"  -> ServerErrorReply(in_fault)
      [] body.json = "array"   ->
            IF body.image = "element" THEN ServerErrorReply(subscript_fault(body))
            ELSE MissingImageReply
      [] body.json = "object" /\ body.image = "absent" -> MissingImageReply
      [] body.json = "object" /\ body.image \in {"b64_garbage", "not_b64"} ->
            handle_ocr_error(base64_to_numpy_fault, "websocket_image")
      [] body.json = "object" /\ body.image = "b64_image" ->
            CASE o = "ok"                -> format_json(EngineFindings)
              [] o = "ok_unserializable" -> ServerErrorReply(json_dumps_fault)
              [] OTHER                   -> handle_ocr_error(recognize_text_fault, "websocket_image")

\* C1: a message that fails is answered on its connection and the server
\* never closes the connection for it: the handler of an open connection
\* never ends, and the reply to every message, also one that follows failed
\* ones, is the reply the message gets on a fresh connection.
C1_PerMessageIsolation ==
    \A c \in Conns :
        /\ conn[c] # "server_closed"
        /\ conn[c] = "open" => pc[c] \in {"recv"} \cup HandlingPcs
        /\ (conn[c] = "open" /\ pc[c] \in SendPcs) =>
                reply[c] = FreshReply(cur[c].body, outcome[c])

\* after an error reply on a connection that is still open, a later message
\* of the connection is being answered with a success envelope
C1_Witness ==
    \E c \in Conns :
        /\ conn[c] = "open"
        /\ failed[c]
        /\ pc[c] = "send_result"
        /\ reply[c].success

\* C2: on a connection that stays open every received message gets exactly
\* one outbound message: between messages the frames sent equal the messages
\* received, and while one is handled exactly its reply is outstanding.
C2_OneReplyPerMessage ==
    \A c \in Conns :
        conn[c] = "open" =>
            /\ pc[c] = "recv" => nSent[c] = nRecv[c]
            /\ pc[c] \in HandlingPcs => nSent[c] + 1 = nRecv[c]

\* two messages have been received and answered, the first with an error
C2_Witness ==
    \E c \in Conns :
        /\ conn[c] = "open"
        /\ pc[c] = "recv"
        /\ failed[c]
        /\ nRecv[c] = 2
        /\ nSent[c] = 2

\* C3: on one connection the i-th response answers the i-th request: a
\* request is taken up only when every earlier one has its response, requests
\* are taken up in the order they were sent, and the frame sent is the reply
\* to the request being handled.
C3_OrderedNoPipelining ==
    [][\A c \in Conns :
        /\ nRecv'[c] = nRecv[c] + 1 =>
                /\ pc[c] = "recv"
                /\ nSent[c] = nRecv[c]
                /\ cur'[c].id = nRecv'[c]
        /\ nSent'[c] = nSent[c] + 1 =>
                /\ nSent'[c] = nRecv[c]
                /\ cur[c].id = nSent'[c]]_vars

\* the second request waits in the connection's buffer while the first is
\* handled, and another connection has a request waiting too
C3_Witness ==
    \E c, d \in Conns :
        /\ c # d
        /\ pc[c] \in HandlingPcs
        /\ cur[c].id = 1
        /\ inbox[c] = <<2>>
        /\ inbox[d] # <<>>

\* C4: at most one inference call is executing at any time: no state has
\* two handlers inside the engine call, and the handler inside it holds the
\* event loop.
C4_EngineMutualExclusion ==
    /\ Cardinality({c \in Conns : pc[c] = "in_engine"}) <= 1
    /\ \A c \in Conns : pc[c] = "in_engine" => running = c

\* one handler is inside the engine call while another open connection has
\* a request waiting
C4_Witness ==
    \E c, d \in Conns :
        /\ c # d
        /\ pc[c] = "in_engine"
        /\ conn[d] = "open"
        /\ pc[d] = "recv"
        /\ inbox[d] # <<>>

\* a message that is valid JSON but no object with an image field
NoImageObject(body) ==
    /\ body.json # "invalid"
    /\ ~(body.json = "object" /\ body.image # "absent")

\* C13 (as stated): a message that is valid JSON but is not an object with
\* an image field is answered with an ErrorEnvelope (findings empty,
\* metadata.success false, metadata.error set), and the minimal
\* protocol-error object is sent only for malformed JSON.
C13_NoImageGetsEnvelope ==
    \A c \in Conns :
        (conn[c] = "open" /\ pc[c] \in SendPcs) =>
            /\ NoImageObject(cur[c].body) =>
                    /\ reply[c].form = "envelope"
                    /\ ~reply[c].success
                    /\ reply[c].findings = <<>>
                    /\ reply[c].error # NoError
            /\ reply[c].form = "minimal" => cur[c].body.json = "invalid"

(***************************************************************************)
(* Properties of the engine instance (checked under Spec).                 *)
(***************************************************************************)
\* C5: the engine is created once, before a connection is accepted and
\* before the first item; every inference uses that instance, and it is
\* never created again or replaced, also after an inference that failed.
C5_SingleEngineInstance ==
    /\ creations <= 1
    /\ ocr_client \in {0, 1}
    /\ engine_used \in {0, ocr_client}
    /\ phase = "serving" => ocr_client = 1
    /\ \A c \in Conns : conn[c] # "idle" => creations = 1 /\ ocr_client = 1
    /\ (b_pc = "loop" \/ b_items # <<>>) => creations = 1 /\ ocr_client = 1
    /\ \A c \in Conns : pc[c] = "in_engine" => engine_used = 1

\* an inference has been made after one that failed, on the one instance
C5_Witness ==
    \E k, j \in 1..Len(b_items) :
        /\ k < j
        /\ b_items[k].outcome = "engine_fault"
        /\ "infer" \in b_items[j].calls
        /\ engine_used = 1
        /\ creations = 1

(***************************************************************************)
(* Properties of the batch driver (checked under Spec).                    *)
(***************************************************************************)
\* the inputs of the batch that are missing files
MissingInputs == {k \in 1..Len(image_paths) : ~os_path_exists(image_paths[k])}

\* nothing failed in the items handled so far but missing files
NoOtherFault == \A k \in 1..Len(b_items) : b_items[k].outcome \in {"missing", "ok"}

\* inference calls made for the items handled so far
EngineCalls == Cardinality({k \in 1..Len(b_items) : "infer" \in b_items[k].calls})

\* C6: after each item processed_images + failed_images is the number of
\* individual_results entries and the number of items handled; at the end of
\* a batch over N inputs with K missing files and no other fault,
\* failed_images = K, processed_images = N - K, total_images = N and the N
\* entries are in input order.
C6_BatchAccounting ==
    LET info == batch_results.batch_info
        entries == batch_results.individual_results
        N == Len(image_paths)
        K == Cardinality(MissingInputs)
    IN
    /\ info.processed_images + info.failed_images = Len(entries)
    /\ Len(entries) = b_i - 1
    /\ \A k \in 1..Len(entries) : entries[k].image_path = image_paths[k]
    /\ (b_pc = "returned" /\ ocr_client # 0 /\ NoOtherFault) =>
            /\ info.failed_images = K
            /\ info.processed_images = N - K
            /\ info.total_images = N
            /\ Len(entries) = N

\* a batch with missing and with processed inputs has ended
C6_Witness ==
    /\ b_pc = "returned"
    /\ ocr_client # 0
    /\ NoOtherFault
    /\ Len(image_paths) >= 2
    /\ MissingInputs # {}
    /\ Cardinality(MissingInputs) < Len(image_paths)

\* C7: a failing item (missing file, error envelope, exception while
\* processing or writing) is recorded as a failure of that item and the loop
\* goes on: the driver leaves the loop only past the last path, with one
\* entry per path in list order.
C7_BatchContinues ==
    LET entries == batch_results.individual_results IN
    /\ \A k \in 1..Len(b_items) :
            /\ k <= Len(entries)
            /\ entries[k].image_path = image_paths[k]
            /\ entries[k].success <=> b_items[k].outcome = "ok"
    /\ (b_pc = "returned" /\ ocr_client # 0) =>
            /\ b_i = Len(image_paths) + 1
            /\ Len(b_items) = Len(image_paths)

\* an item after a missing file, and one after an exception, was processed
C7_Witness ==
    /\ b_pc = "returned"
    /\ \E k, j, l \in 1..Len(b_items) :
        /\ k < j
        /\ j < l
        /\ b_items[k].outcome = "missing"
        /\ b_items[j].outcome \in {"open_fault", "dump_fault"}
        /\ b_items[l].outcome = "ok"
        /\ batch_results.individual_results[l].success

\* C8: for a path that does not exist the driver records the failure entry
\* "File not found" with processing_time 0, calls no stage of the pipeline,
\* and leaves the engine, its call count and the output files as they are.
C8_MissingInputFrame ==
    [][(b_i' = b_i + 1 /\ ~os_path_exists(image_paths[b_i])) =>
            /\ batch_results'.individual_results =
                    Append(batch_results.individual_results,
                           [image_path |-> image_paths[b_i], success |-> FALSE,
                            error |-> <<"File not found">>, processing_time |-> 0])
            /\ b_items'[b_i].calls = {}
            /\ b_items'[b_i].wrote = {}
            /\ EngineCalls' = EngineCalls
            /\ files' = files
            /\ engineVars' = engineVars]_vars

\* a missing path has been handled after an item that wrote its artifacts
C8_Witness ==
    \E k, j \in 1..Len(b_items) :
        /\ k < j
        /\ b_items[k].outcome = "ok"
        /\ b_items[j].outcome = "missing"
        /\ files[OutputJson(image_paths[k])] # Absent

(***************************************************************************)
(* Properties of the Result Assembler and the Geometry Reconstructor       *)
(* (checked under SpecAssembler).                                          *)
(***************************************************************************)
\* a raw entry of wrong arity, without confidence or text, or with bad corners
Malformed(r) ==
    \/ r.arity \notin {2, 3}
    \/ ~r.confidence_is_num
    \/ ~r.text_is_str
    \/ Len(r.bbox_points) # 4

\* the finding is the one built from the raw entry
FindingOf(finding, r) ==
    /\ finding.text = strip(r.text)
    /\ finding.confidence = r.confidence
    /\ finding.coordinates.top_left = r.bbox_points[1]
    /\ finding.coordinates.top_right = r.bbox_points[2]
    /\ finding.coordinates.bottom_right = r.bbox_points[3]
    /\ finding.coordinates.bottom_left = r.bbox_points[4]

\* C15: parse_results returns exactly the findings of the well-formed
\* entries, in the order of the entries; each malformed entry is skipped
\* without raising, and the envelope still has success = TRUE.
C15_SkipsMalformedKeepsOrder ==
    a_pc = "done" =>
        /\ a_envelope.form = "envelope"
        /\ a_envelope.success
        /\ Len(a_envelope.findings) = Len(a_findings)
        /\ Len(a_findings) = Cardinality({k \in 1..Len(a_raw) : ~Malformed(a_raw[k])})
        /\ \E f \in [1..Len(a_findings) -> 1..Len(a_raw)] :
            /\ \A i, j \in 1..Len(a_findings) : i < j => f[i] < f[j]
            /\ \A k \in 1..Len(a_findings) :
                /\ ~Malformed(a_raw[f[k]])
                /\ FindingOf(a_findings[k], a_raw[f[k]])

\* a malformed entry between two well-formed ones was skipped
C15_Witness ==
    /\ a_pc = "done"
    /\ Len(a_raw) = 3
    /\ ~Malformed(a_raw[1])
    /\ Malformed(a_raw[2])
    /\ ~Malformed(a_raw[3])
    /\ a_raw[1] # a_raw[3]
    /\ a_envelope.success
    /\ a_envelope.total_text_regions = 2

\* C16: with no findings (nothing returned, or every entry skipped) the
\* success envelope has total_text_regions 0, the three confidence
\* statistics 0.0, total_characters 0, total_words 0 and longest_text "",
\* with success = TRUE and error null.
C16_EmptyStatistics ==
    (a_pc = "done" /\ a_findings = <<>>) =>
        /\ a_envelope.success
        /\ a_envelope.error = NoError
        /\ a_envelope.findings = <<>>
        /\ a_envelope.total_text_regions = 0
        /\ a_envelope.stats.average.num = 0
        /\ a_envelope.stats.minimum = 0
        /\ a_envelope.stats.maximum = 0
        /\ a_envelope.stats.total_characters = 0
        /\ a_envelope.stats.total_words = 0
        /\ a_envelope.stats.longest_text = <<>>

\* every entry of a list that is not empty was skipped
C16_Witness ==
    /\ a_pc = "done"
    /\ Len(a_raw) >= 2
    /\ a_findings = <<>>
    /\ a_envelope.success

\* the tokens of a text: the places where a run of non-blanks begins
TokenStarts(t) == {k \in 1..Len(t) : t[k] # " " /\ (k = 1 \/ t[k - 1] = " ")}

C18_ConfidenceBounded ==
    a_pc = "done" =>
        \A k \in 1..Len(a_envelope.findings) :
            /\ 0 <= a_envelope.findings[k].confidence
            /\ a_envelope.findings[k].confidence <= 100

\* C19 (as stated): every WordFinding of a region has the confidence of the
\* region it belongs to.
C19_WordConfidenceIsRegions ==
    a_pc = "done" =>
        \A k \in 1..Len(a_envelope.findings) :
            \A j \in 1..Len(a_envelope.findings[k].individual_words.words) :
                a_envelope.findings[k].individual_words.words[j].confidence
                    = a_envelope.findings[k].confidence

\* v is x1 + (p / total_width) * (x2 - x1), truncated to an integer
IsMappedX(v, p, total_width, x1, x2) ==
    /\ v * total_width <= x1 * total_width + p * (x2 - x1)
    /\ x1 * total_width + p * (x2 - x1) < (v + 1) * total_width

\* the words of the metadata that have characters and positions, by place
WordsWithData(data) ==
    SelectSeq([k \in 1..Len(data.word_list) |-> k],
              LAMBDA k : /\ k <= Len(data.position_list)
                         /\ data.word_list[k] # <<>>
                         /\ data.position_list[k] # <<>>)

IsDataUri(string) ==
    /\ Len(string) = 6
    /\ string[1] = "data:"
    /\ string[4] = ";base64"
    /\ string[5] = ","
    /\ string[6] \in Payloads
PayloadOf(string) == string[6]

\* C14 (as stated): for every payload P and every mime type M the string
\* data:M;base64,P is decoded to the same image as the raw payload P, and
\* the request is answered alike: it fails in decoding only if P does.
C14_DataUriDecodedAsPayload ==
    (p_entry = "process_image_websocket" /\ p_pc # "load" /\ IsDataUri(p_base64)) =>
        /\ p_image = base64_to_numpy(<<PayloadOf(p_base64)>>)
        /\ (p_pc = "done" /\ ~base64_to_numpy(<<PayloadOf(p_base64)>>).raised) =>
                p_failed_at # "load"

(***************************************************************************)
(* Properties of the Geometry Reconstructor and of the serialization       *)
(* (checked under SpecAssembler).                                          *)
(***************************************************************************)
\* the places of the well-formed raw entries, in order
WellFormed == SelectSeq([k \in 1..Len(a_raw) |-> k], LAMBDA k : ~Malformed(a_raw[k]))

\* the word metadata of an entry is absent or unusable: no third element, too
\* few or too many elements, or a total_width of 0 with a word to map
MetadataUnusable(r) ==
    \/ r.arity = 2
    \/ ~r.word_box_data.present
    \/ r.word_box_data.len < 3
    \/ r.word_box_data.len > 4
    \/ /\ r.word_box_data.total_width = 0
       /\ \E k \in 1..Len(r.word_box_data.word_list) :
            /\ k <= Len(r.word_box_data.position_list)
            /\ r.word_box_data.word_list[k] # <<>>
            /\ r.word_box_data.position_list[k] # <<>>

\* C21: when the word metadata of a region is absent or unusable, or the
\* reconstruction raises, the word breakdown is "unavailable", nothing is
\* raised, and the region's finding is kept with its text, confidence and
\* region box.
C21_UnavailableIsNoFault ==
    a_pc \in {"format", "done"} =>
        /\ a_envelope.form = (IF a_pc = "done" THEN "envelope" ELSE "none")
        /\ a_pc = "done" => a_envelope.success
        /\ Len(a_findings) = Len(WellFormed)
        /\ \A j \in 1..Len(WellFormed) :
            /\ j <= Len(a_findings)
            /\ FindingOf(a_findings[j], a_raw[WellFormed[j]])
            /\ MetadataUnusable(a_raw[WellFormed[j]]) =>
                    /\ ~a_findings[j].individual_words.available
                    /\ a_findings[j].individual_words.words = <<>>

\* a region whose reconstruction divides by a total_width of 0 is in the
\* output, without words, next to a region with words
C21_Witness ==
    /\ a_pc = "done"
    /\ a_envelope.success
    /\ \E j, k \in 1..Len(a_findings) :
        /\ a_findings[j].raw_word_box_data.present
        /\ a_findings[j].raw_word_box_data.len = 4
        /\ a_findings[j].raw_word_box_data.total_width = 0
        /\ ~a_findings[j].individual_words.available
        /\ a_findings[j].text = <<"n", "o">>
        /\ a_findings[k].individual_words.available

\* the words of the metadata whose characters and positions are not empty
\* and of one length, by place
WordsPassingGuard(data) ==
    SelectSeq([k \in 1..Len(data.word_list) |-> k],
              LAMBDA k : /\ k <= Len(data.position_list)
                         /\ data.word_list[k] # <<>>
                         /\ data.position_list[k] # <<>>
                         /\ Len(data.word_list[k]) = Len(data.position_list[k]))

\* C24 (as stated): a word whose characters or positions are empty, or differ
\* in length, gives no WordFinding; every other word of the region gives one,
\* in the order of the metadata.
C24_PerWordGuard ==
    a_pc \in {"format", "done"} =>
        \A k \in 1..Len(a_findings) :
            LET data == a_findings[k].raw_word_box_data
                words == a_findings[k].individual_words.words
            IN a_findings[k].individual_words.available =>
                /\ Len(words) = Len(WordsPassingGuard(data))
                /\ \A j \in 1..Len(words) :
                    /\ j <= Len(WordsPassingGuard(data))
                    /\ words[j].word = data.word_list[WordsPassingGuard(data)[j]]

\* C25 (as stated): metadata of exactly 3 elements (no language tags) is
\* usable: its words are reconstructed, in order.
C25_ThreeElementsUsable ==
    a_pc \in {"format", "done"} =>
        \A k \in 1..Len(a_findings) :
            LET data == a_findings[k].raw_word_box_data IN
            (/\ data.present
             /\ data.len = 3
             /\ data.total_width > 0
             /\ WordsWithData(data) # <<>>) =>
                /\ a_findings[k].individual_words.available
                /\ Len(a_findings[k].individual_words.words) = Len(WordsWithData(data))

\* C30: for total_width > 0 and a word whose positions all lie in
\* [0, total_width], the word box has x1 <= top_left.x <= top_right.x <= x2,
\* its top edge at y1 and its bottom edge at y2, and every character point of
\* the word lies in [x1, x2] x [y1, y2], the extent of the region's corners.
C30_WordGeometryContained ==
    a_pc \in {"format", "done"} =>
        \A k \in 1..Len(a_findings) :
            LET finding == a_findings[k]
                data == finding.raw_word_box_data
                c  == finding.coordinates
                xs == {c.top_left[1], c.top_right[1], c.bottom_right[1], c.bottom_left[1]}
                ys == {c.top_left[2], c.top_right[2], c.bottom_right[2], c.bottom_left[2]}
                words == finding.individual_words.words
            IN
            (finding.individual_words.available /\ data.total_width > 0) =>
                \A j \in 1..Len(words) :
                    LET positions == data.position_list[WordsWithData(data)[j]]
                        box == words[j].coordinates
                    IN
                    (\A i \in 1..Len(positions) :
                        0 <= positions[i] /\ positions[i] <= data.total_width) =>
                        /\ \E x1 \in xs : x1 <= box.top_left[1]
                        /\ box.top_left[1] <= box.top_right[1]
                        /\ \E x2 \in xs : box.top_right[1] <= x2
                        /\ \A y \in ys : box.top_left[2] <= y /\ box.top_right[2] <= y
                        /\ \A y \in ys : box.bottom_left[2] >= y /\ box.bottom_right[2] >= y
                        /\ box.top_left[2] \in ys /\ box.bottom_left[2] \in ys
                        /\ box.bottom_left[1] = box.top_left[1]
                        /\ box.bottom_right[1] = box.top_right[1]
                        /\ \A i \in 1..Len(words[j].character_positions) :
                            LET pt == words[j].character_positions[i][2] IN
                            /\ \E x1 \in xs : x1 <= pt[1]
                            /\ \E x2 \in xs : pt[1] <= x2
                            /\ \E y1 \in ys : y1 <= pt[2]
                            /\ \E y2 \in ys : pt[2] <= y2

\* a region that does not begin at the origin has two words; the last
\* character of the second is mapped short of the right edge
C30_Witness ==
    /\ a_pc = "done"
    /\ \E k \in 1..Len(a_findings) :
        /\ a_findings[k].coordinates.top_left = <<10, 5>>
        /\ a_findings[k].coordinates.bottom_right = <<30, 10>>
        /\ a_findings[k].individual_words.available
        /\ Len(a_findings[k].individual_words.words) = 2
        /\ a_findings[k].individual_words.words[2].coordinates.top_right = <<24, 5>>
        /\ a_findings[k].individual_words.words[2].character_positions[2] = <<"c", <<24, 7>>>>

\* reading a serialized box back: the four corners by their keys
CornersOf(d) ==
    BoundingBox(dict_get(d, "top_left"), dict_get(d, "top_right"),
                dict_get(d, "bottom_right"), dict_get(d, "bottom_left"))

\* C23: a BoundingBox serialized with to_dict (keys top_left, top_right,
\* bottom_right, bottom_left) and read back gives the same four points in the
\* same corner order, for region boxes and word boxes; the corners 0..3 of
\* the engine are top_left, top_right, bottom_right, bottom_left, unreordered.
C23_BoundingBoxRoundTrip ==
    a_pc = "done" =>
        /\ Len(a_envelope.findings) = Len(a_findings)
        /\ Len(a_findings) = Len(WellFormed)
        /\ \A j \in 1..Len(a_findings) :
            LET d == a_envelope.findings[j].coordinates
                given == a_raw[WellFormed[j]].bbox_points
            IN
            /\ [i \in 1..Len(d) |-> d[i][1]]
                    = <<"top_left", "top_right", "bottom_right", "bottom_left">>
            /\ CornersOf(d) = a_findings[j].coordinates
            /\ <<dict_get(d, "top_left"), dict_get(d, "top_right"),
                 dict_get(d, "bottom_right"), dict_get(d, "bottom_left")>> = given
            /\ \A k \in 1..Len(a_envelope.findings[j].individual_words.words) :
                CornersOf(a_envelope.findings[j].individual_words.words[k].coordinates)
                    = a_findings[j].individual_words.words[k].coordinates

\* a rotated region, whose first corner is not its leftmost, was serialized
C23_Witness ==
    /\ a_pc = "done"
    /\ \E j \in 1..Len(a_envelope.findings) :
        /\ dict_get(a_envelope.findings[j].coordinates, "top_left") = <<2, 0>>
        /\ dict_get(a_envelope.findings[j].coordinates, "top_right") = <<32, 4>>
        /\ dict_get(a_envelope.findings[j].coordinates, "bottom_right") = <<30, 14>>
        /\ dict_get(a_envelope.findings[j].coordinates, "bottom_left") = <<0, 10>>

(***************************************************************************)
(* Further properties of the server and the batch driver (checked under    *)
(* Spec).                                                                  *)
(***************************************************************************)
\* C22: when engine creation fails, the server accepts no connection and
\* serves no request, the batch driver handles no item, and in neither case
\* is the engine created a second time.
C22_InitFailureIsFatal ==
    /\ (mode = "server" /\ phase # "new" /\ ocr_client = 0) =>
        /\ phase = "dead"
        /\ creations = 1
        /\ engine_used = 0
        /\ \A c \in Conns :
            /\ conn[c] = "idle"
            /\ pc[c] = "none"
            /\ nRecv[c] = 0
            /\ nSent[c] = 0
    /\ phase = "dead" => ocr_client = 0
    /\ (mode = "batch" /\ b_pc # "start" /\ ocr_client = 0) =>
        /\ b_pc = "returned"
        /\ creations = 1
        /\ engine_used = 0
        /\ b_items = <<>>
        /\ batch_results.individual_results = <<>>
        /\ batch_results.batch_info.processed_images = 0
        /\ batch_results.batch_info.failed_images = 0
        /\ \A n \in ArtifactNames : files[n] = Absent

\* the server's initialization has failed
C22_Witness ==
    /\ mode = "server"
    /\ phase = "dead"
    /\ creations = 1
    /\ ocr_client = 0

\* C26 (as stated): every batch run ends with the summary artifact written,
\* after the last item, holding the final counts and one entry for every
\* input.
C26_SummaryPersisted ==
    (mode = "batch" /\ b_pc = "returned") =>
        /\ files[SummaryPath].body = [form |-> "summary", results |-> batch_results]
        /\ Len(batch_results.individual_results) = Len(image_paths)

\* the handler of c enters the engine call in this step
EntersEngine(c) == pc[c] # "in_engine" /\ pc'[c] = "in_engine"

\* C27: handling one message invokes the engine at most once, and only for
\* a JSON object whose image field decodes to an image; malformed JSON, a
\* missing image field or an undecodable payload invoke it not at all.
C27_EngineOnlyForDecodedImage ==
    [][/\ \A c \in Conns :
            EntersEngine(c) =>
                /\ pc[c] = "process"
                /\ cur[c].body.json = "object"
                /\ cur[c].body.image = "b64_image"
                /\ outcome[c] = "none"
                /\ cur'[c] = cur[c]
                /\ nRecv'[c] = nRecv[c]
       /\ \A c \in Conns :
            (pc'[c] \in SendPcs /\ cur'[c].body # MsgBody("object", "b64_image")) =>
                outcome'[c] = "none"
       /\ (mode = "server" /\ engine_used' # engine_used) =>
            \E c \in Conns : EntersEngine(c)]_vars

\* the second message of a connection, an undecodable payload, is being
\* answered and the engine has never been invoked
C27_Witness ==
    \E c \in Conns :
        /\ pc[c] = "send_result"
        /\ cur[c].id = 2
        /\ cur[c].body = MsgBody("object", "b64_garbage")
        /\ ~reply[c].success
        /\ engine_used = 0

\* C28: a failing message on a connection, or its disconnect at any point,
\* ends at most that connection's handler: the step leaves every other
\* connection as it is and frees the event loop, an open connection always
\* has a live handler, and the server stays in service.
C28_ConnectionIndependence ==
    [][/\ phase = "serving" => phase' = "serving"
       /\ \A c \in Conns :
            ((pc[c] # "done" /\ pc'[c] = "done") \/ (conn[c] = "open" /\ conn'[c] # "open")) =>
                /\ pc'[c] = "done" => running' # c
                /\ \A d \in Conns \ {c} :
                    /\ conn'[d] = conn[d]
                    /\ pc'[d] = pc[d]
                    /\ inbox'[d] = inbox[d]
                    /\ cur'[d] = cur[d]
                    /\ reply'[d] = reply[d]
                    /\ nRecv'[d] = nRecv[d]
                    /\ nSent'[d] = nSent[d]
       /\ \A d \in Conns :
            conn'[d] = "open" => pc'[d] \in {"recv"} \cup HandlingPcs]_vars

\* the handler of a connection that was closed has ended, and another
\* connection, which had an error reply before, is being answered with a
\* success envelope for its second message
C28_Witness ==
    \E c, d \in Conns :
        /\ c # d
        /\ conn[c] = "client_closed"
        /\ pc[c] = "done"
        /\ conn[d] = "open"
        /\ failed[d]
        /\ cur[d].id = 2
        /\ pc[d] = "send_result"
        /\ reply[d].success

\* C29 (as stated): at the end of a batch the file named by output_json of
\* every successful entry holds the envelope produced for the entry's
\* image_path; no artifact is overwritten by that of another input.
C29_ArtifactIntegrity ==
    (mode = "batch" /\ b_pc = "returned") =>
        \A k \in 1..Len(batch_results.individual_results) :
            LET entry == batch_results.individual_results[k] IN
            entry.success =>
                files[entry.output_json]
                    = Written(entry.image_path,
                              process_image_with_client(entry.image_path, "ok"))

====
